---- MODULE Spec2Model ----
(***************************************************************************)
(* Model of engine/utils.py: the sandboxed runner (subproc_generator), the *)
(* compile cache (run_nvcc_and_return_bytes under lru_cache), the          *)
(* benchmark driver (cast_to_ctype, run_dynamic_benchmark) and the         *)
(* temporary files of the compile and load functions.                      *)
(***************************************************************************)
EXTENDS Integers, Sequences, FiniteSets, TLC

VARIABLES
    \* ---- subproc_generator ----
    timeout,     \* decorator argument (NoTimeout models Python None)
    work,        \* the events func yields when it runs to its end
    stopAt,      \* number of events func yields before it returns or raises
    raises,      \* TRUE: func raises after stopAt events; FALSE: it returns
    my_queue,    \* mp.Queue contents, oldest first
    proc,        \* worker process: "unstarted","running","exited","crashed","terminated"
    widx,        \* number of events the worker has put so far
    gen,         \* position of the wrapper generator
    event,       \* the local variable event of wrapper
    yielded,     \* everything the consumer has received from the generator
    waited,      \* time units the current my_queue.get has been blocked
    raised,      \* the worker's func has raised
    \* history of the run, kept for the properties
    sent,        \* everything the worker has put on the queue, in order
    sinceRecv,   \* time units since the current my_queue.get was entered
    elapsed,     \* time units the caller has spent blocked in the whole run
    \* ---- run_nvcc_and_return_bytes under lru_cache ----
    cache,       \* lru_cache entries [key, val, run], least recently used first
    tpc,         \* per calling thread: "idle", "nvcc" (subprocess.run), "store"
    tkey,        \* per thread: the (gpu, solution_code, output_name) of its call
    tbytes,      \* per thread: the bytes its compilation produced
    ret,         \* per thread: what its last finished call returned or raised
    ncalls,      \* calls made so far
    \* history of the cache, kept for the properties
    hist,        \* per key: compiler invocations, bytes returned, failure seen, evicted
    tcall,       \* per thread, of its current or last call: it began after a call for
                 \* its key had failed / after its key was evicted; it ran the compiler
    lastUse,     \* per key: logical time of its last insert or hit
    now,         \* logical time
    \* ---- run_dynamic_benchmark ----
    language,    \* "cuda" or "python"
    argtypes,    \* solution_func.argtypes, a sequence of ctypes types
    n_inputs,    \* len(input_tensors)
    n_extra,     \* len(problem.get_extra_params(test_case))
    flops,       \* problem.get_flops(test_case)
    bpc,         \* "prepare","check","call","reduce","done","failed"
    call_args,   \* input_ptrs + [output_ptr] + extra_params_casted
    runtimes,    \* the list runtimes, in milliseconds
    clock,       \* time.time() - start, in milliseconds
    ncalled,     \* times the entry point has been entered
    error,       \* the exception that left run_dynamic_benchmark, "" when none
    failedAt,    \* where it was raised: "prepare" or "call"
    benchmark_result,
    \* ---- files of run_nvcc_and_return_bytes and read_bytes_as_cuda_lib ----
    disk,        \* the temporary paths that exist
    fpc,         \* "idle" or the source line the running call is at
    fcall,       \* the running or last call: which function, its arguments
    fbytes,      \* the bytes nvcc wrote to out_path
    fresult,     \* what the last finished call returned or raised
    pending,     \* the exception on its way through the finally clause
    nops,        \* calls made so far
    before       \* history: the paths that existed when the call began

runVars == <<timeout, work, stopAt, raises, my_queue, proc, widx, gen, event,
             yielded, waited, raised, sent, sinceRecv, elapsed>>

cacheVars == <<cache, tpc, tkey, tbytes, ret, ncalls, hist, tcall, lastUse, now>>

benchVars == <<language, argtypes, n_inputs, n_extra, flops, bpc, call_args,
               runtimes, clock, ncalled, error, failedAt, benchmark_result>>

fileVars == <<disk, fpc, fcall, fbytes, fresult, pending, nops, before>>

vars == <<runVars, cacheVars, benchVars, fileVars>>

\* what the steps of each component leave alone
notRunVars == <<cacheVars, benchVars, fileVars>>
notCacheVars == <<runVars, benchVars, fileVars>>
notBenchVars == <<runVars, cacheVars, fileVars>>
notFileVars == <<runVars, cacheVars, benchVars>>

-----------------------------------------------------------------------------
\* Bounds of the model
MaxEvents == 2
MaxTimeout == 2
MaxWait == 3

\* Python None as a timeout value (line 290: timeout=None)
NoTimeout == -1

Events == {"A", "B"}
None == "None"
TLE == "TIME_LIMIT_EXCEEDED"

RECURSIVE SeqsUpTo(_)
SeqsUpTo(n) ==
    IF n = 0 THEN {<<>>}
    ELSE LET S == SeqsUpTo(n - 1)
         IN S \cup {Append(s, e) : s \in {x \in S : Len(x) = n - 1}, e \in Events}

TimeoutValues == {NoTimeout} \cup (0..MaxTimeout)

Alive(p) == p = "running"

-----------------------------------------------------------------------------
\* subproc_generator

InitRun ==
    /\ timeout \in TimeoutValues
    /\ work \in SeqsUpTo(MaxEvents)
    /\ raises \in BOOLEAN
    /\ stopAt \in 0..Len(work)
    /\ (~raises => stopAt = Len(work))
    /\ my_queue = <<>>
    /\ proc = "unstarted"
    /\ widx = 0
    /\ gen = "created"
    /\ event = None
    /\ yielded = <<>>
    /\ waited = 0
    /\ raised = FALSE
    /\ sent = <<>>
    /\ sinceRecv = 0
    /\ elapsed = 0

\* lines 302-304: the consumer's first next() creates the queue and starts the worker
Start ==
    /\ gen = "created"
    /\ my_queue' = <<>>
    /\ proc' = "running"
    /\ gen' = "get"
    /\ waited' = 0
    /\ sinceRecv' = 0
    /\ UNCHANGED <<timeout, work, stopAt, raises, widx, event, yielded, raised, sent, elapsed>>
    /\ UNCHANGED notRunVars

\* a worker whose finally does not reach the queue
QueuePut_EventsOnly(q, ev) == IF ev = "None" THEN q ELSE Append(q, ev)

\* lines 296, 298: my_queue.put
QueuePut(q, ev) == Append(q, ev)

\* lines 295-296: for ev in result: my_queue.put(ev)
WorkerPut ==
    /\ proc = "running"
    /\ widx < stopAt
    /\ my_queue' = QueuePut(my_queue, work[widx + 1])
    /\ widx' = widx + 1
    /\ sent' = QueuePut(sent, work[widx + 1])
    /\ UNCHANGED <<timeout, work, stopAt, raises, proc, gen, event, yielded, waited, raised, sinceRecv, elapsed>>
    /\ UNCHANGED notRunVars

\* lines 293-298: func's generator is exhausted; finally puts the sentinel; the process exits
WorkerReturn ==
    /\ proc = "running"
    /\ widx = stopAt
    /\ ~raises
    /\ my_queue' = QueuePut(my_queue, None)
    /\ proc' = "exited"
    /\ sent' = QueuePut(sent, None)
    /\ UNCHANGED <<timeout, work, stopAt, raises, widx, gen, event, yielded, waited, raised, sinceRecv, elapsed>>
    /\ UNCHANGED notRunVars

\* lines 293-298: func raises; finally puts the sentinel; the exception ends the process
WorkerRaise ==
    /\ proc = "running"
    /\ widx = stopAt
    /\ raises
    /\ raised' = TRUE
    /\ my_queue' = QueuePut(my_queue, None)
    /\ proc' = "exited"
    /\ sent' = QueuePut(sent, None)
    /\ UNCHANGED <<timeout, work, stopAt, raises, widx, gen, event, yielded, waited, sinceRecv, elapsed>>
    /\ UNCHANGED notRunVars

\* the worker process dies from a native fault: no Python finally runs
WorkerCrash ==
    /\ proc = "running"
    /\ proc' = "crashed"
    /\ UNCHANGED <<timeout, work, stopAt, raises, my_queue, widx, gen, event, yielded, waited, raised, sent, sinceRecv, elapsed>>
    /\ UNCHANGED notRunVars

\* time passes while the caller is blocked in my_queue.get(timeout=timeout)
Tick ==
    /\ gen = "get"
    /\ my_queue = <<>>
    /\ IF timeout = NoTimeout THEN waited < MaxWait ELSE waited < timeout
    /\ waited' = waited + 1
    /\ sinceRecv' = sinceRecv + 1
    /\ elapsed' = elapsed + 1
    /\ UNCHANGED <<timeout, work, stopAt, raises, my_queue, proc, widx, gen, event, yielded, raised, sent>>
    /\ UNCHANGED notRunVars

\* a queue that hands out its newest item first
QueueGet_Newest(q) == q[Len(q)]

\* line 307: the item my_queue.get returns
QueueGet(q) == Head(q)

\* lines 307-308: event = my_queue.get(...); yield event
Get ==
    /\ gen = "get"
    /\ my_queue # <<>>
    /\ event' = QueueGet(my_queue)
    /\ my_queue' = Tail(my_queue)
    /\ yielded' = Append(yielded, QueueGet(my_queue))
    /\ gen' = "yield_event"
    /\ UNCHANGED <<timeout, work, stopAt, raises, proc, widx, waited, raised, sent, sinceRecv, elapsed>>
    /\ UNCHANGED notRunVars

\* a caller that reports silence as normal completion
TimedOutEvents_AsCompleted(evs) == Append(evs, None)

\* lines 312-316: what the consumer has received once the timed-out event is yielded
TimedOutEvents(evs) == Append(evs, TLE)

\* lines 311-316: nothing arrived within timeout: queue.Empty; yield the timed-out event
Empty ==
    /\ gen = "get"
    /\ my_queue = <<>>
    /\ timeout # NoTimeout
    /\ waited >= timeout
    /\ yielded' = TimedOutEvents(yielded)
    /\ gen' = "yield_tle"
    /\ UNCHANGED <<timeout, work, stopAt, raises, my_queue, proc, widx, event, waited, raised, sent, sinceRecv, elapsed>>
    /\ UNCHANGED notRunVars

\* a loop that forgets to break on the sentinel
AfterEvent_NoBreak(ev) == "get"

\* lines 309-310, 305: break on the sentinel, otherwise loop to the next receive
AfterEvent(ev) == IF ev = None THEN "join" ELSE "get"

\* a timeout counted over the whole run instead of per receive
ReceiveWait_PerRun(w) == w

\* line 307: every my_queue.get(timeout=timeout) starts its own wait
ReceiveWait(w) == 0

\* lines 308-310: the consumer asks for the next item after an event
ResumeEvent ==
    /\ gen = "yield_event"
    /\ gen' = AfterEvent(event)
    /\ waited' = ReceiveWait(waited)
    /\ sinceRecv' = 0
    /\ UNCHANGED <<timeout, work, stopAt, raises, my_queue, proc, widx, event, yielded, raised, sent, elapsed>>
    /\ UNCHANGED notRunVars

\* lines 317-318: the consumer asks for the next item after the timed-out event
ResumeTLE ==
    /\ gen = "yield_tle"
    /\ proc' = IF Alive(proc) THEN "terminated" ELSE proc
    /\ gen' = "join"
    /\ UNCHANGED <<timeout, work, stopAt, raises, my_queue, widx, event, yielded, waited, raised, sent, sinceRecv, elapsed>>
    /\ UNCHANGED notRunVars

\* lines 320-321: proc.join() returns once the worker is gone; proc.close(); StopIteration
Join ==
    /\ gen = "join"
    /\ ~Alive(proc)
    /\ gen' = "done"
    /\ UNCHANGED <<timeout, work, stopAt, raises, my_queue, proc, widx, event, yielded, waited, raised, sent, sinceRecv, elapsed>>
    /\ UNCHANGED notRunVars

\* the consumer drops the generator while it is suspended at a yield (line 308 or 312):
\* GeneratorExit is raised there and leaves wrapper; no handler or finally runs
Close ==
    /\ gen \in {"yield_event", "yield_tle"}
    /\ gen' = "closed"
    /\ UNCHANGED <<timeout, work, stopAt, raises, my_queue, proc, widx, event, yielded, waited, raised, sent, sinceRecv, elapsed>>
    /\ UNCHANGED notRunVars

NextRun ==
    \/ Start
    \/ WorkerPut
    \/ WorkerReturn
    \/ WorkerRaise
    \/ WorkerCrash
    \/ Tick
    \/ Get
    \/ Empty
    \/ ResumeEvent
    \/ ResumeTLE
    \/ Join
    \/ Close

-----------------------------------------------------------------------------
\* run_nvcc_and_return_bytes under lru_cache

\* Bounds of the model
MaxCalls == 3
NumSources == 2

\* line 87: lru_cache(maxsize=512)
maxsize == 512

Threads == {"t1", "t2"}

\* lines 25-32
GPU_COMPUTE_CAPABILITIES ==
    ("T4" :> "75") @@ ("H100" :> "90") @@ ("A100-80GB" :> "80") @@
    ("A10G" :> "86") @@ ("L40S" :> "89") @@ ("L4" :> "89")

\* the gpu names calls are made with: one supported, one not in the table
Gpus == {"T4", "B200"}
\* solution_code texts: 0 is a text with a syntax error, 1..NumSources compile
BadSources == {0}
Sources == 0..NumSources
OutputNames == {"sol"}
\* line 88: the arguments are strings, which hash_dict (lines 77-81) passes on as they are
Keys == Gpus \X Sources \X OutputNames

\* the bytes nvcc may write for a source that compiles (builds need not be reproducible)
Bytes == {"so1", "so2"}
Stderr(code) == "error: expected a ';'"

Ok(b) == [kind |-> "bytes", data |-> b]
NVCCError(text) == [kind |-> "NVCCError", data |-> text]
KeyError(gpu) == [kind |-> "KeyError", data |-> gpu]
NoResult == [kind |-> "none", data |-> ""]

\* An item of the cache stands for run consecutive entries: the entry of key and,
\* when run > 1, those of the run - 1 sources after it, one after the other. Runs
\* longer than 1 hold the sources compiled before the calls modelled here, which
\* no modelled call names again.
Entry(k, v) == [key |-> k, val |-> v, run |-> 1]
FillerKey(i) == <<"T4", 1000 + i, "sol">>
Fillers(n) == IF n = 0 THEN <<>> ELSE <<[key |-> FillerKey(1), val |-> Ok("so1"), run |-> n]>>
OldKey == <<"T4", 1, "sol">>

RECURSIVE Size(_)
Size(c) == IF c = <<>> THEN 0 ELSE c[1].run + Size(Tail(c))

Covers(item, k) ==
    /\ k[1] = item.key[1]
    /\ k[3] = item.key[3]
    /\ k[2] >= item.key[2]
    /\ k[2] < item.key[2] + item.run

Holds(c, k) == \E i \in 1..Len(c) : Covers(c[i], k)
IndexOf(c, k) == CHOOSE i \in 1..Len(c) : c[i].key = k
Lookup(c, k) == c[IndexOf(c, k)].val
Oldest(c) == c[1].key
DropOldest(c) ==
    IF c[1].run = 1 THEN Tail(c)
    ELSE <<[c[1] EXCEPT !.key = <<@[1], @[2] + 1, @[3]>>, !.run = @ - 1]>> \o Tail(c)

\* a hit that leaves the entry where it is
Touch_NoRefresh(c, k) == c

\* lru_cache hit (line 87): the entry moves to the most recently used end
Touch(c, k) ==
    LET i == IndexOf(c, k)
    IN SubSeq(c, 1, i - 1) \o SubSeq(c, i + 1, Len(c)) \o <<c[i]>>

\* an insert that overwrites the value a key already has
Insert_Overwrite(c, k, v) ==
    IF Holds(c, k) THEN [c EXCEPT ![IndexOf(c, k)].val = v]
    ELSE IF Size(c) >= maxsize THEN Append(DropOldest(c), Entry(k, v))
    ELSE Append(c, Entry(k, v))

\* an insert that never evicts
Insert_Unbounded(c, k, v) ==
    IF Holds(c, k) THEN c ELSE Append(c, Entry(k, v))

\* lru_cache after the wrapped function returned (line 87): a key added meanwhile
\* is left as it is; a full cache drops its oldest entry; the new entry is newest
Insert(c, k, v) ==
    IF Holds(c, k) THEN c
    ELSE IF Size(c) >= maxsize THEN Append(DropOldest(c), Entry(k, v))
    ELSE Append(c, Entry(k, v))

\* nvcc_command with a default architecture for unknown gpus
nvcc_command_Default(gpu) ==
    IF gpu \in DOMAIN GPU_COMPUTE_CAPABILITIES
    THEN [raised |-> FALSE, sm |-> GPU_COMPUTE_CAPABILITIES[gpu]]
    ELSE [raised |-> FALSE, sm |-> "75"]

\* lines 45-64: sm = GPU_COMPUTE_CAPABILITIES[gpu] raises KeyError for an unknown gpu
nvcc_command(gpu) ==
    IF gpu \in DOMAIN GPU_COMPUTE_CAPABILITIES
    THEN [raised |-> FALSE, sm |-> GPU_COMPUTE_CAPABILITIES[gpu]]
    ELSE [raised |-> TRUE, sm |-> ""]

NoCall == [failed |-> FALSE, evicted |-> FALSE, invoked |-> FALSE]
Begin(h, k, inv) == [failed |-> h[k].failed, evicted |-> h[k].evicted, invoked |-> inv]

NoHist == [inv |-> 0, rets |-> {}, failed |-> FALSE, evicted |-> FALSE]

\* the keys of c that c2 no longer holds
Dropped(c, c2) == {j \in Keys : Holds(c, j) /\ ~Holds(c2, j)}

\* history after the cache went from c to c2 by an insert of k
HistInsert(h, c, c2, k) ==
    [j \in Keys |->
        IF j \in Dropped(c, c2) THEN [NoHist EXCEPT !.evicted = TRUE]
        ELSE IF j = k /\ ~Holds(c, k) THEN [h[j] EXCEPT !.evicted = FALSE]
        ELSE h[j]]

InitCache ==
    /\ \E n \in {0, maxsize - 1}, old \in {<<>>, <<Entry(OldKey, Ok("so1"))>>} :
          /\ cache = old \o Fillers(n)
          /\ hist = [k \in Keys |->
                        IF old # <<>> /\ k = OldKey
                        THEN [NoHist EXCEPT !.inv = 1, !.rets = {"so1"}]
                        ELSE NoHist]
          /\ lastUse = [k \in Keys |-> IF old # <<>> /\ k = OldKey THEN -1 - maxsize ELSE 0]
    /\ tpc = [t \in Threads |-> "idle"]
    /\ tkey = [t \in Threads |-> OldKey]
    /\ tbytes = [t \in Threads |-> ""]
    /\ ret = [t \in Threads |-> NoResult]
    /\ ncalls = 0
    /\ tcall = [t \in Threads |-> NoCall]
    /\ now = 0

\* line 87: the call finds its key in the cache and returns the stored value
CallHit(t, k) ==
    /\ tpc[t] = "idle"
    /\ ncalls < MaxCalls
    /\ Holds(cache, k)
    /\ ncalls' = ncalls + 1
    /\ tkey' = [tkey EXCEPT ![t] = k]
    /\ cache' = Touch(cache, k)
    /\ ret' = [ret EXCEPT ![t] = Lookup(cache, k)]
    /\ hist' = [hist EXCEPT ![k].rets = @ \cup {Lookup(cache, k).data}]
    /\ tcall' = [tcall EXCEPT ![t] = Begin(hist, k, FALSE)]
    /\ now' = now + 1
    /\ lastUse' = [lastUse EXCEPT ![k] = now + 1]
    /\ UNCHANGED <<tpc, tbytes>>
    /\ UNCHANGED notCacheVars

\* lines 87, 103-118: a miss enters the function; nvcc_command raises KeyError
CallUnsupported(t, k) ==
    /\ tpc[t] = "idle"
    /\ ncalls < MaxCalls
    /\ ~Holds(cache, k)
    /\ nvcc_command(k[1]).raised
    /\ ncalls' = ncalls + 1
    /\ tkey' = [tkey EXCEPT ![t] = k]
    /\ ret' = [ret EXCEPT ![t] = KeyError(k[1])]
    /\ tcall' = [tcall EXCEPT ![t] = Begin(hist, k, FALSE)]
    /\ UNCHANGED <<cache, tpc, tbytes, hist, lastUse, now>>
    /\ UNCHANGED notCacheVars

\* lines 87, 103-119: a miss enters the function, which starts the compiler
CallCompile(t, k) ==
    /\ tpc[t] = "idle"
    /\ ncalls < MaxCalls
    /\ ~Holds(cache, k)
    /\ ~nvcc_command(k[1]).raised
    /\ ncalls' = ncalls + 1
    /\ tkey' = [tkey EXCEPT ![t] = k]
    /\ tpc' = [tpc EXCEPT ![t] = "nvcc"]
    /\ hist' = [hist EXCEPT ![k].inv = @ + 1]
    /\ tcall' = [tcall EXCEPT ![t] = Begin(hist, k, TRUE)]
    /\ UNCHANGED <<cache, tbytes, ret, lastUse, now>>
    /\ UNCHANGED notCacheVars

\* lines 119-123: the compiler exits non-zero; NVCCError(stderr) leaves the function,
\* and lru_cache stores nothing for a call that raised
NvccFail(t) ==
    /\ tpc[t] = "nvcc"
    /\ tkey[t][2] \in BadSources
    /\ tpc' = [tpc EXCEPT ![t] = "idle"]
    /\ ret' = [ret EXCEPT ![t] = NVCCError(Stderr(tkey[t][2]))]
    /\ hist' = [hist EXCEPT ![tkey[t]].failed = TRUE]
    /\ UNCHANGED <<cache, tkey, tbytes, ncalls, tcall, lastUse, now>>
    /\ UNCHANGED notCacheVars

\* lines 119-127: the compiler exits 0; the function reads the library and returns its bytes
NvccSucceed(t) ==
    /\ tpc[t] = "nvcc"
    /\ tkey[t][2] \notin BadSources
    /\ \E b \in Bytes : tbytes' = [tbytes EXCEPT ![t] = b]
    /\ tpc' = [tpc EXCEPT ![t] = "store"]
    /\ UNCHANGED <<cache, tkey, ret, ncalls, hist, tcall, lastUse, now>>
    /\ UNCHANGED notCacheVars

\* line 87: lru_cache stores the returned bytes under the key and hands them to the caller
Store(t) ==
    /\ tpc[t] = "store"
    /\ cache' = Insert(cache, tkey[t], Ok(tbytes[t]))
    /\ ret' = [ret EXCEPT ![t] = Ok(tbytes[t])]
    /\ tpc' = [tpc EXCEPT ![t] = "idle"]
    /\ hist' = [HistInsert(hist, cache, cache', tkey[t]) EXCEPT ![tkey[t]].rets = @ \cup {tbytes[t]}]
    /\ now' = now + 1
    /\ lastUse' = IF Holds(cache, tkey[t]) THEN lastUse
                  ELSE [lastUse EXCEPT ![tkey[t]] = now + 1]
    /\ UNCHANGED <<tkey, tbytes, ncalls, tcall>>
    /\ UNCHANGED notCacheVars

NextCache ==
    \/ \E t \in Threads, k \in Keys : CallHit(t, k)
    \/ \E t \in Threads, k \in Keys : CallUnsupported(t, k)
    \/ \E t \in Threads, k \in Keys : CallCompile(t, k)
    \/ \E t \in Threads : NvccFail(t)
    \/ \E t \in Threads : NvccSucceed(t)
    \/ \E t \in Threads : Store(t)

-----------------------------------------------------------------------------
\* cast_to_ctype and run_dynamic_benchmark

\* Bounds of the model
MaxArgs == 3
MaxInputs == 2
MaxExtra == 2

\* line 249
min_iters == 3
\* line 250, in seconds
max_runtime == 1

\* the ctypes types a declared argtypes list is made of: a typed pointer such as
\* POINTER(c_float), the untyped pointer, and an integer
PointerTypes == {"POINTER", "c_void_p"}
CTypes == PointerTypes \cup {"c_size_t"}

RECURSIVE ArgtypesUpTo(_)
ArgtypesUpTo(n) ==
    IF n = 0 THEN {<<>>}
    ELSE LET S == ArgtypesUpTo(n - 1)
         IN S \cup {Append(s, ty) : s \in {x \in S : Len(x) = n - 1}, ty \in CTypes}

\* per-call device times and wall-clock times, in milliseconds
Durations == {300, 1500}
\* problem.get_flops(test_case), in units of 10^6 floating-point operations
Flops == {1000, 3000}

Min2(a, b) == IF a <= b THEN a ELSE b

\* Python slices argtypes[:n] and argtypes[-n:] (argtypes[-0:] is the whole list)
SliceTo(s, n) == SubSeq(s, 1, Min2(n, Len(s)))
SliceLast(s, n) == IF n = 0 THEN s ELSE SubSeq(s, Len(s) - Min2(n, Len(s)) + 1, Len(s))

Tensor(name) == [kind |-> "tensor", name |-> name]
Scalar(name) == [kind |-> "scalar", name |-> name]
input_tensors(n) == [i \in 1..n |-> Tensor(i)]
extra_params(n) == [i \in 1..n |-> Scalar(i)]
actual_output == Tensor(0)

\* lines 154-157: ctypes.cast needs a pointer type; argtype(value) builds an
\* integer or an untyped pointer from a number, not a typed pointer
CastFails(item, argtype) ==
    IF item.kind = "tensor" THEN argtype \notin PointerTypes
    ELSE argtype = "POINTER"
Cast(item, argtype) == [kind |-> item.kind, name |-> item.name, ctype |-> argtype]

\* lines 149-160: zip stops at the shorter of data and argtypes
cast_to_ctype(data, argtypes_, lang) ==
    IF lang = "cuda"
    THEN LET n == Min2(Len(data), Len(argtypes_))
         IN IF \E i \in 1..n : CastFails(data[i], argtypes_[i])
            THEN [err |-> "TypeError", out |-> <<>>]
            ELSE [err |-> "", out |-> [i \in 1..n |-> Cast(data[i], argtypes_[i])]]
    ELSE [err |-> "", out |-> data]

\* lines 234-244, 259-262: the argument list the entry point is called with
PrepareArgs(lang, at, n, e) ==
    IF lang # "cuda" THEN [err |-> "", out |-> input_tensors(n) \o <<actual_output>> \o extra_params(e)]
    ELSE LET ins == cast_to_ctype(input_tensors(n), SliceTo(at, n), lang)
             ext == cast_to_ctype(extra_params(e), SliceLast(at, e), lang)
         IN IF ins.err # "" THEN ins
            ELSE IF n >= Len(at) THEN [err |-> "IndexError", out |-> <<>>]
            ELSE IF CastFails(actual_output, at[n + 1]) THEN [err |-> "TypeError", out |-> <<>>]
            ELSE IF ext.err # "" THEN ext
            ELSE [err |-> "", out |-> ins.out \o <<Cast(actual_output, at[n + 1])>> \o ext.out]

\* argtypes[i].from_param: an instance of the declared type; c_void_p takes any pointer
Accepts(argtype, a) ==
    \/ a.ctype = argtype
    \/ argtype = "c_void_p" /\ a.ctype \in PointerTypes

\* line 260: what ctypes does with the call of a cdecl function that has argtypes:
\* fewer arguments than argtypes is a TypeError, more are passed on
CallError(lang, at, given) ==
    IF lang # "cuda" THEN ""
    ELSE IF Len(given) < Len(at) THEN "TypeError"
    ELSE IF \E i \in 1..Len(at) : ~Accepts(at[i], given[i]) THEN "ArgumentError"
    ELSE ""

RECURSIVE GCD(_, _)
GCD(a, b) == IF b = 0 THEN a ELSE GCD(b, a % b)

\* a best runtime that is the last sample instead of the smallest
best_runtime_Last(rs) == rs[Len(rs)]

\* line 270: min(runtimes)
best_runtime(rs) == CHOOSE r \in {rs[i] : i \in 1..Len(rs)} : \A i \in 1..Len(rs) : r <= rs[i]

\* line 271: (flops / best_runtime) / 1e9 with flops in 10^6 operations and the
\* runtime in milliseconds, as the fraction <<numerator, denominator>> in lowest terms
best_gflops(f, best) == LET g == GCD(f, best) IN <<f \div g, best \div g>>

NoBenchmarkResult == [gflops |-> <<0, 1>>, runtime_ms |-> 0]

\* a loop that needs budget and minimum both to go on
KeepRunning_Both(el, n) == el < max_runtime * 1000 /\ n < min_iters

\* a loop that looks at the budget only
KeepRunning_BudgetOnly(el, n) == el < max_runtime * 1000

\* line 256: time.time() - start < max_runtime or len(runtimes) < min_iters,
\* with the elapsed time in milliseconds
KeepRunning(el, n) == el < max_runtime * 1000 \/ n < min_iters

InitBench ==
    /\ language \in {"cuda", "python"}
    /\ argtypes \in ArgtypesUpTo(MaxArgs)
    /\ (language = "python" => argtypes = <<>>)
    /\ n_inputs \in 0..MaxInputs
    /\ n_extra \in 0..MaxExtra
    /\ flops \in Flops
    /\ bpc = "prepare"
    /\ call_args = <<>>
    /\ runtimes = <<>>
    /\ clock = 0
    /\ ncalled = 0
    /\ error = ""
    /\ failedAt = ""
    /\ benchmark_result = NoBenchmarkResult

\* lines 234-255: prepare the arguments, then start the clock
Prepare ==
    /\ bpc = "prepare"
    /\ LET p == PrepareArgs(language, argtypes, n_inputs, n_extra)
       IN /\ call_args' = p.out
          /\ error' = p.err
          /\ bpc' = IF p.err = "" THEN "check" ELSE "failed"
          /\ failedAt' = IF p.err = "" THEN "" ELSE "prepare"
    /\ UNCHANGED <<language, argtypes, n_inputs, n_extra, flops, runtimes, clock, ncalled, benchmark_result>>
    /\ UNCHANGED notBenchVars

\* line 256: the loop condition
LoopCheck ==
    /\ bpc = "check"
    /\ bpc' = IF KeepRunning(clock, Len(runtimes)) THEN "call" ELSE "reduce"
    /\ UNCHANGED <<language, argtypes, n_inputs, n_extra, flops, call_args, runtimes, clock, ncalled, error, failedAt, benchmark_result>>
    /\ UNCHANGED notBenchVars

\* lines 257-260: ctypes refuses the call; the exception leaves run_dynamic_benchmark
CallRefused ==
    /\ bpc = "call"
    /\ CallError(language, argtypes, call_args) # ""
    /\ error' = CallError(language, argtypes, call_args)
    /\ failedAt' = "call"
    /\ bpc' = "failed"
    /\ UNCHANGED <<language, argtypes, n_inputs, n_extra, flops, call_args, runtimes, clock, ncalled, benchmark_result>>
    /\ UNCHANGED notBenchVars

\* lines 257-268: one timed call of the entry point: d is the time between the two
\* events, w the wall-clock time the iteration took
TimedCall ==
    /\ bpc = "call"
    /\ CallError(language, argtypes, call_args) = ""
    /\ \E d \in Durations, w \in Durations :
          /\ w >= d
          /\ runtimes' = Append(runtimes, d)
          /\ clock' = clock + w
    /\ ncalled' = ncalled + 1
    /\ bpc' = "check"
    /\ UNCHANGED <<language, argtypes, n_inputs, n_extra, flops, call_args, error, failedAt, benchmark_result>>
    /\ UNCHANGED notBenchVars

\* lines 270-280: the result is built from the samples
Reduce ==
    /\ bpc = "reduce"
    /\ benchmark_result' = [gflops |-> best_gflops(flops, best_runtime(runtimes)),
                            runtime_ms |-> Len(runtimes)]
    /\ bpc' = "done"
    /\ UNCHANGED <<language, argtypes, n_inputs, n_extra, flops, call_args, runtimes, clock, ncalled, error, failedAt>>
    /\ UNCHANGED notBenchVars

NextBench ==
    \/ Prepare
    \/ LoopCheck
    \/ CallRefused
    \/ TimedCall
    \/ Reduce

-----------------------------------------------------------------------------
\* The files of run_nvcc_and_return_bytes and read_bytes_as_cuda_lib

\* Bound of the model: calls made one after the other
MaxOps == 2

\* the names tempfile hands out are unique: the n-th call gets its own
out_path(n) == <<"out_path", n>>
td(n) == <<"td", n>>
src_path(n) == <<"td/solution.cu", n>>
temp_file_path(n) == <<"temp_file", n>>

\* what read_bytes_as_cuda_lib is given: artifact bytes, bytes that are no
\* library, or the path of a library
Libs == {[kind |-> "bytes", data |-> "so1"], [kind |-> "bytes", data |-> "junk"],
         [kind |-> "path", data |-> "/lib/a.so"]}

NoFileCall == [op |-> "none", gpu |-> "", code |-> 0, lib |-> [kind |-> "none", data |-> ""]]

InitFiles ==
    /\ disk = {}
    /\ fpc = "idle"
    /\ fcall = NoFileCall
    /\ fbytes = ""
    /\ fresult = NoResult
    /\ pending = ""
    /\ nops = 0
    /\ before = {}

\* lines 103-105: NamedTemporaryFile(delete=False, ...) creates the output file
MakeOutput(gpu, code) ==
    /\ fpc = "idle"
    /\ nops < MaxOps
    /\ nops' = nops + 1
    /\ fcall' = [NoFileCall EXCEPT !.op = "compile", !.gpu = gpu, !.code = code]
    /\ before' = disk
    /\ disk' = disk \cup {out_path(nops + 1)}
    /\ fpc' = "106"
    /\ fresult' = NoResult
    /\ UNCHANGED <<fbytes, pending>>
    /\ UNCHANGED notFileVars

\* line 106: out_path.unlink()
UnlinkOutput ==
    /\ fpc = "106"
    /\ disk' = disk \ {out_path(nops)}
    /\ fpc' = "108"
    /\ UNCHANGED <<fcall, fbytes, fresult, pending, nops, before>>
    /\ UNCHANGED notFileVars

\* line 108: with tempfile.TemporaryDirectory() as td
MakeTempDir ==
    /\ fpc = "108"
    /\ disk' = disk \cup {td(nops)}
    /\ fpc' = "112"
    /\ UNCHANGED <<fcall, fbytes, fresult, pending, nops, before>>
    /\ UNCHANGED notFileVars

\* line 112: (path / "solution.cu").write_text(solution_code)
WriteSource ==
    /\ fpc = "112"
    /\ disk' = disk \cup {src_path(nops)}
    /\ fpc' = "118"
    /\ UNCHANGED <<fcall, fbytes, fresult, pending, nops, before>>
    /\ UNCHANGED notFileVars

\* line 108: leaving the with block, normally or by an exception, removes the
\* directory and what is in it
ExitWith(d, n) == d \ {td(n), src_path(n)}

\* line 118: nvcc_command; a KeyError leaves the with block and the function
BuildCommand ==
    /\ fpc = "118"
    /\ IF nvcc_command(fcall.gpu).raised
       THEN /\ disk' = ExitWith(disk, nops)
            /\ fresult' = KeyError(fcall.gpu)
            /\ fpc' = "idle"
       ELSE /\ fpc' = "119"
            /\ UNCHANGED <<disk, fresult>>
    /\ UNCHANGED <<fcall, fbytes, pending, nops, before>>
    /\ UNCHANGED notFileVars

\* lines 119-123, 125: nvcc exits with 0 and has written the library; the with
\* block is left
NvccWrote ==
    /\ fpc = "119"
    /\ fcall.code \notin BadSources
    /\ \E b \in Bytes : fbytes' = b
    /\ disk' = ExitWith(disk \cup {out_path(nops)}, nops)
    /\ fpc' = "125"
    /\ UNCHANGED <<fcall, fresult, pending, nops, before>>
    /\ UNCHANGED notFileVars

\* lines 119-123: nvcc reports errors and exits with a non-zero code, having
\* written no library: NVCCError leaves the with block and the function
NvccRejected ==
    /\ fpc = "119"
    /\ fcall.code \in BadSources
    /\ disk' = ExitWith(disk, nops)
    /\ fresult' = NVCCError(Stderr(fcall.code))
    /\ fpc' = "idle"
    /\ UNCHANGED <<fcall, fbytes, pending, nops, before>>
    /\ UNCHANGED notFileVars

\* lines 119-123: nvcc is killed (out of memory, a signal) while its last step is
\* writing the library: the return code is non-zero and the file is there
NvccKilled ==
    /\ fpc = "119"
    /\ disk' = ExitWith(disk \cup {out_path(nops)}, nops)
    /\ fresult' = NVCCError("")
    /\ fpc' = "idle"
    /\ UNCHANGED <<fcall, fbytes, pending, nops, before>>
    /\ UNCHANGED notFileVars

\* lines 125-127: read the library, unlink it, return the bytes
ReadAndUnlink ==
    /\ fpc = "125"
    /\ disk' = disk \ {out_path(nops)}
    /\ fresult' = Ok(fbytes)
    /\ fpc' = "idle"
    /\ UNCHANGED <<fcall, fbytes, pending, nops, before>>
    /\ UNCHANGED notFileVars

\* lines 132-134: bytes are given: NamedTemporaryFile(delete=False, suffix=".so")
MakeTempFile(lib) ==
    /\ fpc = "idle"
    /\ nops < MaxOps
    /\ lib.kind = "bytes"
    /\ nops' = nops + 1
    /\ fcall' = [NoFileCall EXCEPT !.op = "load", !.lib = lib]
    /\ before' = disk
    /\ disk' = disk \cup {temp_file_path(nops + 1)}
    /\ fpc' = "136"
    /\ fresult' = NoResult
    /\ pending' = ""
    /\ UNCHANGED <<fbytes>>
    /\ UNCHANGED notFileVars

\* lines 136-137: temp_file.write, temp_file.close; an OSError (disk full) goes
\* to the finally clause
WriteLib ==
    /\ fpc = "136"
    /\ \/ fpc' = "139" /\ pending' = ""
       \/ fpc' = "141" /\ pending' = "OSError: write"
    /\ UNCHANGED <<disk, fcall, fbytes, fresult, nops, before>>
    /\ UNCHANGED notFileVars

\* line 139: ctypes.CDLL(temp_file_path); OSError when the bytes are no library
LoadLib ==
    /\ fpc = "139"
    /\ pending' = IF fcall.lib.data = "junk" THEN "OSError: CDLL" ELSE ""
    /\ fpc' = "141"
    /\ UNCHANGED <<disk, fcall, fbytes, fresult, nops, before>>
    /\ UNCHANGED notFileVars

\* a finally clause that leaves the file
Cleanup_Keep(d, p) == d

\* lines 141-142: if os.path.exists(temp_file_path): os.unlink(temp_file_path)
Cleanup(d, p) == IF p \in d THEN d \ {p} ELSE d

\* lines 140-146: the finally clause, then the return or the pending exception
Finally ==
    /\ fpc = "141"
    /\ disk' = Cleanup(disk, temp_file_path(nops))
    /\ fresult' = IF pending = "" THEN [kind |-> "cuda_lib", data |-> fcall.lib.data]
                  ELSE [kind |-> "OSError", data |-> pending]
    /\ fpc' = "idle"
    /\ UNCHANGED <<fcall, fbytes, pending, nops, before>>
    /\ UNCHANGED notFileVars

\* lines 143-146: a path is given: ctypes.CDLL(compiled_lib), no file is written
LoadPath(lib) ==
    /\ fpc = "idle"
    /\ nops < MaxOps
    /\ lib.kind = "path"
    /\ nops' = nops + 1
    /\ fcall' = [NoFileCall EXCEPT !.op = "load", !.lib = lib]
    /\ before' = disk
    /\ \/ fresult' = [kind |-> "cuda_lib", data |-> lib.data]
       \/ fresult' = [kind |-> "OSError", data |-> "OSError: CDLL"]
    /\ UNCHANGED <<disk, fpc, fbytes, pending>>
    /\ UNCHANGED notFileVars

NextFiles ==
    \/ \E gpu \in Gpus, code \in Sources : MakeOutput(gpu, code)
    \/ UnlinkOutput
    \/ MakeTempDir
    \/ WriteSource
    \/ BuildCommand
    \/ NvccWrote
    \/ NvccRejected
    \/ NvccKilled
    \/ ReadAndUnlink
    \/ \E lib \in Libs : MakeTempFile(lib)
    \/ WriteLib
    \/ LoadLib
    \/ Finally
    \/ \E lib \in Libs : LoadPath(lib)

-----------------------------------------------------------------------------
\* Specifications: one component runs while the others are at rest

\* a run of the wrapped generator, with nothing else in progress
InitRunner ==
    /\ InitRun
    /\ cache = <<>>
    /\ tpc = [t \in Threads |-> "idle"]
    /\ tkey = [t \in Threads |-> OldKey]
    /\ tbytes = [t \in Threads |-> ""]
    /\ ret = [t \in Threads |-> NoResult]
    /\ ncalls = 0
    /\ hist = [k \in Keys |-> NoHist]
    /\ tcall = [t \in Threads |-> NoCall]
    /\ lastUse = [k \in Keys |-> 0]
    /\ now = 0
    /\ language = "cuda"
    /\ argtypes = <<>>
    /\ n_inputs = 0
    /\ n_extra = 0
    /\ flops = 0
    /\ bpc = "prepare"
    /\ call_args = <<>>
    /\ runtimes = <<>>
    /\ clock = 0
    /\ ncalled = 0
    /\ error = ""
    /\ failedAt = ""
    /\ benchmark_result = NoBenchmarkResult
    /\ disk = {}
    /\ fpc = "idle"
    /\ fcall = NoFileCall
    /\ fbytes = ""
    /\ fresult = NoResult
    /\ pending = ""
    /\ nops = 0
    /\ before = {}

\* compile calls, with nothing else in progress
InitCompile ==
    /\ InitCache
    /\ timeout = NoTimeout
    /\ work = <<>>
    /\ stopAt = 0
    /\ raises = FALSE
    /\ my_queue = <<>>
    /\ proc = "unstarted"
    /\ widx = 0
    /\ gen = "created"
    /\ event = None
    /\ yielded = <<>>
    /\ waited = 0
    /\ raised = FALSE
    /\ sent = <<>>
    /\ sinceRecv = 0
    /\ elapsed = 0
    /\ language = "cuda"
    /\ argtypes = <<>>
    /\ n_inputs = 0
    /\ n_extra = 0
    /\ flops = 0
    /\ bpc = "prepare"
    /\ call_args = <<>>
    /\ runtimes = <<>>
    /\ clock = 0
    /\ ncalled = 0
    /\ error = ""
    /\ failedAt = ""
    /\ benchmark_result = NoBenchmarkResult
    /\ disk = {}
    /\ fpc = "idle"
    /\ fcall = NoFileCall
    /\ fbytes = ""
    /\ fresult = NoResult
    /\ pending = ""
    /\ nops = 0
    /\ before = {}

\* one benchmark, with nothing else in progress
InitBenchmark ==
    /\ InitBench
    /\ timeout = NoTimeout
    /\ work = <<>>
    /\ stopAt = 0
    /\ raises = FALSE
    /\ my_queue = <<>>
    /\ proc = "unstarted"
    /\ widx = 0
    /\ gen = "created"
    /\ event = None
    /\ yielded = <<>>
    /\ waited = 0
    /\ raised = FALSE
    /\ sent = <<>>
    /\ sinceRecv = 0
    /\ elapsed = 0
    /\ cache = <<>>
    /\ tpc = [t \in Threads |-> "idle"]
    /\ tkey = [t \in Threads |-> OldKey]
    /\ tbytes = [t \in Threads |-> ""]
    /\ ret = [t \in Threads |-> NoResult]
    /\ ncalls = 0
    /\ hist = [k \in Keys |-> NoHist]
    /\ tcall = [t \in Threads |-> NoCall]
    /\ lastUse = [k \in Keys |-> 0]
    /\ now = 0
    /\ disk = {}
    /\ fpc = "idle"
    /\ fcall = NoFileCall
    /\ fbytes = ""
    /\ fresult = NoResult
    /\ pending = ""
    /\ nops = 0
    /\ before = {}

\* compile and load calls as they touch the disk, with nothing else in progress
InitDisk ==
    /\ InitFiles
    /\ timeout = NoTimeout
    /\ work = <<>>
    /\ stopAt = 0
    /\ raises = FALSE
    /\ my_queue = <<>>
    /\ proc = "unstarted"
    /\ widx = 0
    /\ gen = "created"
    /\ event = None
    /\ yielded = <<>>
    /\ waited = 0
    /\ raised = FALSE
    /\ sent = <<>>
    /\ sinceRecv = 0
    /\ elapsed = 0
    /\ cache = <<>>
    /\ tpc = [t \in Threads |-> "idle"]
    /\ tkey = [t \in Threads |-> OldKey]
    /\ tbytes = [t \in Threads |-> ""]
    /\ ret = [t \in Threads |-> NoResult]
    /\ ncalls = 0
    /\ hist = [k \in Keys |-> NoHist]
    /\ tcall = [t \in Threads |-> NoCall]
    /\ lastUse = [k \in Keys |-> 0]
    /\ now = 0
    /\ language = "cuda"
    /\ argtypes = <<>>
    /\ n_inputs = 0
    /\ n_extra = 0
    /\ flops = 0
    /\ bpc = "prepare"
    /\ call_args = <<>>
    /\ runtimes = <<>>
    /\ clock = 0
    /\ ncalled = 0
    /\ error = ""
    /\ failedAt = ""
    /\ benchmark_result = NoBenchmarkResult

SpecRun == InitRunner /\ [][NextRun]_vars

SpecCache == InitCompile /\ [][NextCache]_vars

SpecBench == InitBenchmark /\ [][NextBench]_vars

SpecFiles == InitDisk /\ [][NextFiles]_vars

\* every call of the entry point returns and the interpreter keeps running
FairSpecBench == SpecBench /\ WF_vars(NextBench)

-----------------------------------------------------------------------------
\* Properties of subproc_generator

IsTerminal(e) == e \in {None, TLE}
WorkerEvents(s) == SelectSeq(s, LAMBDA e : e \in Events)
Produced == SubSeq(work, 1, widx)
LastYielded == yielded[Len(yielded)]
EndsWith(e) == yielded # <<>> /\ LastYielded = e

\* C1: a terminal event (the None sentinel or the TIME_LIMIT_EXCEEDED event) is
\* only ever the last thing the consumer has received, and a run drained to
\* exhaustion has received exactly one.
C1_OneTerminalAlwaysLast ==
    /\ \A i \in 1..Len(yielded) : IsTerminal(yielded[i]) => i = Len(yielded)
    /\ gen = "done" => (yielded # <<>> /\ IsTerminal(LastYielded))

C1_Witness ==
    /\ gen = "done"
    /\ Len(yielded) >= 2
    /\ IsTerminal(LastYielded)

\* C2: once the TIME_LIMIT_EXCEEDED event has been delivered and the consumer is
\* finished with the stream (drained it or dropped it), the worker is not alive.
C2_WorkerKilledOnTimeout ==
    (gen \in {"done", "closed"} /\ EndsWith(TLE)) => ~Alive(proc)

\* C3: when a receive has waited the whole timeout and the queue is still empty,
\* the next event the caller yields is the TIME_LIMIT_EXCEEDED event, and after
\* that event the caller yields nothing more.
C3_SilenceEndsTimedOut ==
    [][ /\ ( /\ gen = "get"
             /\ timeout # NoTimeout
             /\ waited >= timeout
             /\ my_queue = <<>>
             /\ yielded' # yielded ) => yielded' = Append(yielded, TLE)
        /\ EndsWith(TLE) => yielded' = yielded ]_vars

C3_Witness ==
    /\ gen = "done"
    /\ EndsWith(TLE)
    /\ proc \in {"terminated", "crashed"}
    /\ widx < stopAt

\* C4: the worker events the caller has yielded, followed by those still in the
\* queue, are exactly the events func has produced so far, in order (so the
\* yielded ones are a prefix, nothing duplicated, skipped or reordered); a stream
\* that ends with the sentinel carries everything func produced.
C4_OrderPreserved ==
    /\ WorkerEvents(yielded \o my_queue) = Produced
    /\ EndsWith(None) => (WorkerEvents(yielded) = Produced /\ widx = stopAt)

C4_Witness ==
    /\ gen = "done"
    /\ EndsWith(None)
    /\ Len(yielded) = 3
    /\ yielded[1] # yielded[2]

\* C5: a stream terminated by the completion sentinel carries the complete list
\* of the work's events, and the work function did not raise.
C5_FailureNeverCompleted ==
    EndsWith(None) => (~raised /\ WorkerEvents(yielded) = work)

-----------------------------------------------------------------------------
\* Properties of run_nvcc_and_return_bytes

Compiles(k) == k[1] \in DOMAIN GPU_COMPUTE_CAPABILITIES /\ k[2] \notin BadSources

\* logical time of the last insert or hit of an item's first entry; the sources
\* compiled before the modelled calls were inserted in the order of their numbers
UseTime(item) ==
    IF item.key \in Keys THEN lastUse[item.key] ELSE item.key[2] - 1000 - maxsize

\* C6: for a key whose compilation succeeds, while the key is not evicted, the
\* compiler is invoked at most once and every call returns the same bytes.
C6_CompiledOnceSameBytes ==
    \A k \in Keys : Compiles(k) =>
        /\ hist[k].inv <= 1
        /\ Cardinality(hist[k].rets) <= 1

\* C7: a call that begins after a call for the same key ended with NVCCError
\* does not invoke the compiler.
C7_FailureIsCached ==
    \A t \in Threads : tcall[t].failed => ~tcall[t].invoked

\* C8: no two compiler invocations for the same key run at the same time.
C8_OneCompileInFlightPerKey ==
    \A t1, t2 \in Threads :
        (t1 # t2 /\ tpc[t1] = "nvcc" /\ tpc[t2] = "nvcc") => tkey[t1] # tkey[t2]

\* C9: the cache never holds more than maxsize entries; an insert into a full
\* cache removes exactly the entry whose last insert or hit is the oldest; and a
\* call that begins after its key was evicted invokes the compiler.
C9_LRUBound ==
    /\ [](Size(cache) <= maxsize)
    /\ [](\A t \in Threads : tcall[t].evicted => tcall[t].invoked)
    /\ [][\A k \in Keys :
            (Size(cache) >= maxsize /\ ~Holds(cache, k) /\ Holds(cache', k)) =>
                /\ cache' = Append(DropOldest(cache), Entry(k, Lookup(cache', k)))
                /\ \A i \in 2..Len(cache) : UseTime(cache[1]) < UseTime(cache[i])]_vars

C9_Witness ==
    /\ Size(cache) = maxsize
    /\ \E t \in Threads :
          /\ tcall[t].evicted
          /\ tcall[t].invoked
          /\ tpc[t] = "idle"
          /\ Holds(cache, tkey[t])

\* C10: a call whose gpu is not a key of GPU_COMPUTE_CAPABILITIES has ended with
\* KeyError and did not invoke the compiler.
C10_UnsupportedFailsFast ==
    \A t \in Threads :
        tkey[t][1] \notin DOMAIN GPU_COMPUTE_CAPABILITIES =>
            /\ tpc[t] = "idle"
            /\ ~tcall[t].invoked
            /\ ret[t] = KeyError(tkey[t][1])

C10_Witness ==
    \E t \in Threads :
        /\ tkey[t][1] \notin DOMAIN GPU_COMPUTE_CAPABILITIES
        /\ ret[t].kind = "KeyError"

-----------------------------------------------------------------------------
\* Properties of the caller's waits and of the worker's sentinel

\* C14: the caller is suspended only in the queue receive, every such wait is
\* bounded by timeout for every timeout the decorator accepts (None included),
\* and the caller never waits where nothing can end the wait.
C14_CallerWaitsBounded ==
    /\ (gen = "get" /\ timeout # NoTimeout) => waited <= timeout
    /\ gen = "join" => ~Alive(proc)
    /\ ~(gen = "get" /\ timeout = NoTimeout /\ my_queue = <<>> /\ ~Alive(proc))

\* C15: the timeout is per receive: the timed-out event is yielded only when the
\* current receive, counted from its own start, has lasted timeout with nothing
\* in the queue; a worker is terminated only after such a receive; the length
\* of the whole run plays no part.
C15_TimeoutPerReceive ==
    /\ [][yielded' = Append(yielded, TLE) =>
             (timeout # NoTimeout /\ my_queue = <<>> /\ sinceRecv >= timeout)]_vars
    /\ [](proc = "terminated" => (EndsWith(TLE) /\ sinceRecv >= timeout))

\* a run longer than timeout in total, every message in time: it completed normally
C15_Witness ==
    /\ gen = "done"
    /\ timeout # NoTimeout
    /\ elapsed > timeout
    /\ proc = "exited"
    /\ EndsWith(None)
    /\ Len(yielded) = MaxEvents + 1

\* C16: the worker puts the sentinel exactly once and after every event, whether
\* func returned or raised; when the worker finished and no receive ran out of
\* time, the caller's stream ends with the sentinel, not the timed-out event.
C16_SentinelLast ==
    /\ \A i \in 1..Len(sent) : sent[i] = None => i = Len(sent)
    /\ proc = "exited" => sent = Append(SubSeq(work, 1, stopAt), None)
    /\ (gen = "done" /\ proc = "exited" /\ (timeout = NoTimeout \/ sinceRecv < timeout))
           => (EndsWith(None) /\ yielded = sent)

\* func raised after an event, and the caller's stream still ends with the sentinel
C16_Witness ==
    /\ gen = "done"
    /\ raised
    /\ Len(sent) >= 2
    /\ yielded = sent
    /\ EndsWith(None)

-----------------------------------------------------------------------------
\* Properties of the stored artifacts

-----------------------------------------------------------------------------
\* Properties of the benchmark

Supplied == n_inputs + 1 + n_extra
ArityMismatch == language = "cuda" /\ Supplied # Len(argtypes)
BudgetMs == max_runtime * 1000

\* C11: when the number of input buffers plus one output buffer plus the number of
\* extra parameters differs from the length of the declared argtypes, argument
\* preparation fails and the entry point is never called.
\* the entry point entered although the counts differ
SilentCall == ArityMismatch /\ ncalled > 0

C11_ArityMismatchFails ==
    ArityMismatch =>
        /\ ~SilentCall
        /\ bpc \in {"prepare", "failed"}
        /\ bpc = "failed" => failedAt = "prepare"

\* C12: a result is never built from fewer than 3 timed calls, whatever the calls
\* last: at least 3 calls were made and the reported sample count is at least 3.
C12_AtLeastThreeCalls ==
    /\ bpc \in {"reduce", "done"} => (Len(runtimes) >= 3 /\ ncalled >= 3)
    /\ bpc = "done" => (benchmark_result.runtime_ms >= 3
                          /\ benchmark_result.runtime_ms = ncalled)

\* every call took longer than the whole budget, and three calls were still made
C12_Witness ==
    /\ bpc = "done"
    /\ \A i \in 1..Len(runtimes) : runtimes[i] >= BudgetMs
    /\ benchmark_result.runtime_ms = 3

\* C13: the reported throughput is flops divided by the smallest of all per-call
\* times of the run (as a fraction: gflops[1] / gflops[2] = flops / smallest); when
\* every call took the same time t it is flops / t for any number of iterations;
\* 10^9 operations at 0.001 s per call is 1000.
C13_BestCaseReduction ==
    /\ bpc = "done" =>
          /\ Len(runtimes) = ncalled
          /\ \E i \in 1..Len(runtimes) :
                /\ \A j \in 1..Len(runtimes) : runtimes[i] <= runtimes[j]
                /\ benchmark_result.gflops[1] * runtimes[i] = flops * benchmark_result.gflops[2]
          /\ \A t \in Durations :
                (\A j \in 1..Len(runtimes) : runtimes[j] = t)
                    => benchmark_result.gflops[1] * t = flops * benchmark_result.gflops[2]
          /\ benchmark_result.gflops[2] > 0
    /\ \A n \in 1..(min_iters + 1) :
          best_gflops(1000, best_runtime([i \in 1..n |-> 1])) = <<1000, 1>>

\* a slower call came after the fastest one, and the fastest one is reported
C13_Witness ==
    /\ bpc = "done"
    /\ runtimes[1] < runtimes[Len(runtimes)]
    /\ benchmark_result.gflops[1] * runtimes[1] = flops * benchmark_result.gflops[2]

-----------------------------------------------------------------------------
\* Properties of the temporary files

Returned(op) == fpc = "idle" /\ fcall.op = op

\* C17: when run_nvcc_and_return_bytes has returned or raised, neither the build
\* directory, nor solution.cu, nor the output library path exists, after a
\* successful and after a failed compilation alike.
C17_CompileLeavesNothing ==
    Returned("compile") =>
        /\ {td(nops), src_path(nops), out_path(nops)} \cap disk = {}
        /\ disk = before

\* C18: when read_bytes_as_cuda_lib was given bytes and has returned or raised,
\* the temporary file it wrote does not exist, whether writing and loading
\* succeeded or failed, and no other path was touched.
C18_LoaderCleansUp ==
    (Returned("load") /\ fcall.lib.kind = "bytes") =>
        /\ temp_file_path(nops) \notin disk
        /\ disk = before

\* bytes that are no library were given: CDLL raised and the file is gone
C18_Witness ==
    /\ Returned("load")
    /\ fcall.lib.kind = "bytes"
    /\ fresult = [kind |-> "OSError", data |-> "OSError: CDLL"]
    /\ temp_file_path(nops) \notin disk
====
